---- MODULE Spec2Model ----
(***************************************************************************)
(* Model of the Watch2Gether room server (src/server/index.js): the        *)
(* in-memory room registry, the socket.io rooms used for broadcasting and  *)
(* the handlers create-room, join-room, play, pause, seek, fullscreen and  *)
(* disconnect.  Each handler runs to completion (Node's event loop), so    *)
(* each one is a single action.  Every action also records what the        *)
(* handler was given (lastEvent), what it passed to its callback (reply)   *)
(* and what it broadcast to each room (emitted), next to the registry as   *)
(* it was when the handler started (before).                               *)
(***************************************************************************)
EXTENDS Integers, Sequences, FiniteSets, TLC

\* ------------------------------------------------------------------ bounds
MaxConns == 3       \* socket ids that may ever connect
MaxRoomIds == 2     \* distinct strings nanoid(10) may return
MaxUrls == 2        \* distinct videoUrl payloads
MaxTime == 1        \* currentTime payloads range over 0..MaxTime
MaxScope == 4       \* sockets plus room identifiers in one run: a run has
                    \* n sockets and m identifiers with n + m <= MaxScope
                    \* (three sockets on one identifier, two on two, ...)
MaxVideoTime == 6   \* positions of the video element, in tenths of a second
MaxPending == 2     \* media events the video element has queued
MaxTimers == 2      \* setTimeout callbacks of one kind pending at once
MaxInFlight == 1    \* join-room requests of the room page awaiting their reply
MaxInbox == 2       \* messages on their way to the page's socket
MaxPeers == 1       \* sockets other than the tab's, where the server runs with a tab

Conns == 1..MaxConns
RoomIds == 1..MaxRoomIds
Urls == 1..MaxUrls
Times == 0..MaxTime
VideoTimes == 0..MaxVideoTime

VARIABLES
    rooms,      \* const rooms = new Map(): live room id -> room record
    sioRooms,   \* socket.io adapter rooms: room id -> sockets that joined it
    status,     \* per socket id: "idle" (not yet connected), "connected", "disconnected"
    deleted,    \* room ids whose room was deleted because its last user left
    promoted,   \* per room id: the socket the last host-changed for it named, until
                \* that socket's next control request naming the room is processed
    sockets,    \* the socket ids that connect in this run
    ids,        \* the strings nanoid(10) returns in this run
    before,     \* rooms, as it was when the last handler started
    lastEvent,  \* the event the last handler processed (or the client step
                \* "leave-room", which sends the server nothing)
    reply,      \* what that handler passed to its callback
    emitted     \* per room id, the io.to(roomId).emit calls of that handler, in order

\* One room page (RoomPage) and its <video> element.
VARIABLES
    videoTime,      \* video.currentTime, in tenths of a second
    videoPaused,    \* video.paused
    mediaEvents,    \* play / pause / seeked events the element queued, not yet dispatched
    isSyncingRef,   \* isSyncingRef.current
    isHost,         \* the isHost state of the component
    effectIsHost,   \* isHost as captured by the listeners the effect installed
    roomNotFound,   \* the roomNotFound state of the component
    listening,      \* the listeners of the effect are installed
    timers,         \* pending setTimeout callbacks that reset isSyncingRef
    joins,          \* join-room requests sent whose callback has not run
    snapshots,      \* pending setTimeout callbacks that apply a join snapshot
    clientEvent,    \* what the last step of the page handled, with the values it found
    commands,       \* what that step told the video element, in order
    sent            \* what that step emitted on the socket, in order

\* The rest of the room page: its life from mount to unmount, the Room
\* Closed modal and fullscreen.  What the model keeps beside the program's
\* state to tell an echo from a gesture is here too.
VARIABLES
    mounted,        \* the room page is on screen (set by the router)
    roomClosed,     \* roomClosedReason !== null
    navTimers,      \* pending setTimeout(() => navigate("/"), 3000) callbacks
    fullscreen,     \* document.fullscreenElement !== null
    showFullscreenPrompt,   \* the showFullscreenPrompt state of the component
    fsEvents,       \* fullscreenchange events queued, not yet dispatched: for each, 0,
                    \* or, for an event a fullscreen-event's command caused, the number
                    \* of 100 ms reset timers still to fire up to and including the one
                    \* that fullscreen-event set
    fsTimers,       \* pending 100 ms setTimeout callbacks that reset isSyncingRef
    windows,        \* the same number for each queued media event: 0, or the 50 ms
                    \* reset timers still to fire up to the one its remote event set
    echo,           \* that number for the event the last step dispatched
    fsPayload,      \* isFullscreen of the fullscreen-event the last step handled
    displayed,      \* roomId of the route the page was opened for
    toServer,       \* join-room requests of the page the server has not handled
    toClient,       \* what the server sent to the page's socket, not yet delivered
    userCount       \* the userCount state of the component

pageVars == <<mounted, roomClosed, navTimers, fullscreen, showFullscreenPrompt,
              fsEvents, fsTimers, windows, echo, fsPayload, displayed, toServer, toClient,
          userCount>>

netVars == <<displayed, toServer, toClient, userCount>>

lifeVars == <<mounted, roomClosed, navTimers>>

fsVars == <<fullscreen, showFullscreenPrompt, fsEvents, fsTimers>>

serverVars == <<rooms, sioRooms, status, deleted, promoted, sockets, ids, before, lastEvent, reply, emitted>>

clientVars == <<videoTime, videoPaused, mediaEvents, isSyncingRef, isHost, effectIsHost,
                roomNotFound, listening, timers, joins, snapshots, clientEvent, commands, sent>>

vars == <<rooms, sioRooms, status, deleted, promoted, sockets, ids, before, lastEvent, reply, emitted,
          videoTime, videoPaused, mediaEvents, isSyncingRef, isHost, effectIsHost,
          roomNotFound, listening, timers, joins, snapshots, clientEvent, commands, sent,
          mounted, roomClosed, navTimers, fullscreen, showFullscreenPrompt,
          fsEvents, fsTimers, windows, echo, fsPayload, displayed, toServer, toClient,
          userCount>>

\* JS `undefined`; socket and room identifiers start at 1.
Undefined == 0

\* ------------------------------------------------------ Map<socketId, _>
\* room.users is a JS Map: keys are unique and iterate in insertion order.
Keys(users) == {users[i] : i \in 1..Len(users)}

MapHas(users, c) == c \in Keys(users)

\* Variant: a key already present is deleted and inserted again, at the end.
MapSetReinsert(users, c) == Append(SelectSeq(users, LAMBDA x : x # c), c)

\* Variant: the key is appended whether or not it is present.
MapSetAppend(users, c) == Append(users, c)

\* Map.prototype.set: a key already present keeps its position.
MapSet(users, c) == IF MapHas(users, c) THEN users ELSE Append(users, c)

\* Map.prototype.delete
MapDelete(users, c) == SelectSeq(users, LAMBDA x : x # c)

\* users.keys().next().value: undefined on an empty Map.
FirstKey(users) == IF Len(users) = 0 THEN Undefined ELSE Head(users)

\* ---------------------------------------------------------------- outputs
NoReply == [kind |-> "none"]
NoEmits == [r \in RoomIds |-> <<>>]

Event(name, c, roomId, arg) ==
    [name |-> name, socket |-> c, roomId |-> roomId, arg |-> arg]

\* io.to(roomId).emit(event, payload): delivered to the sockets in the
\* socket.io room at the time of the call.
Emit(event, payload, to) == [event |-> event, payload |-> payload, to |-> to]

ControlNames == {"play", "pause", "seek", "fullscreen"}

\* A step of the page that reads the element and the flags is recorded
\* with what it read, any other step by its name.
ClientEvent(name, currentTime) ==
    [name |-> name, currentTime |-> currentTime, localTime |-> videoTime,
     syncing |-> isSyncingRef, host |-> effectIsHost]

ClientStep(name) ==
    [name |-> name, currentTime |-> Undefined, localTime |-> Undefined,
     syncing |-> FALSE, host |-> FALSE]

\* The room page when its effect has run for the first time: state as
\* useState / useRef initialise it, listeners installed, join-room sent.
Mounted ==
    /\ videoTime = 0
    /\ videoPaused = TRUE
    /\ mediaEvents = << >>
    /\ isSyncingRef = FALSE
    /\ isHost = FALSE
    /\ effectIsHost = FALSE
    /\ roomNotFound = FALSE
    /\ listening = TRUE
    /\ timers = 0
    /\ joins = 1
    /\ snapshots = << >>
    /\ clientEvent = ClientStep("mount")
    /\ commands = << >>
    /\ sent = <<[event |-> "join-room", currentTime |-> Undefined]>>
    /\ mounted = TRUE
    /\ roomClosed = FALSE
    /\ navTimers = 0
    /\ fullscreen = FALSE
    /\ showFullscreenPrompt = FALSE
    /\ fsEvents = << >>
    /\ fsTimers = 0
    /\ windows = << >>
    /\ echo = 0
    /\ fsPayload = FALSE
    /\ displayed = Undefined
    /\ toServer = << >>
    /\ toClient = << >>
    /\ userCount = 1

\* ------------------------------------------------------------------- Init
\* The server after start-up: no room, no socket.  The run's population
\* (which sockets will connect, which strings nanoid will return) is fixed
\* here and never changes.
Init ==
    /\ rooms = << >>
    /\ sioRooms = [r \in RoomIds |-> {}]
    /\ status = [c \in Conns |-> "idle"]
    /\ deleted = {}
    /\ promoted = [r \in RoomIds |-> Undefined]
    /\ \E n \in 1..MaxConns, m \in 1..MaxRoomIds :
        /\ n + m <= MaxScope
        /\ sockets = 1..n
        /\ ids = 1..m
    /\ before = << >>
    /\ lastEvent = Event("listen", Undefined, Undefined, Undefined)
    /\ reply = NoReply
    /\ emitted = NoEmits
    /\ Mounted

\* io.on("connection", socket => ...): a new socket id appears.
Connect(c) ==
    /\ c \in sockets
    /\ status[c] = "idle"
    /\ status' = [status EXCEPT ![c] = "connected"]
    /\ lastEvent' = Event("connection", c, Undefined, Undefined)
    /\ reply' = NoReply
    /\ emitted' = NoEmits
    /\ before' = rooms
    /\ UNCHANGED <<rooms, sioRooms, deleted, promoted, sockets, ids>>
    /\ UNCHANGED clientVars

\* ------------------------------------------------------------ create-room
\* Variant: the creator is left to be added by its later join-room.
NewRoomWithoutCreator(videoUrl, c) ==
    [videoUrl |-> videoUrl, currentTime |-> 0, isPlaying |-> FALSE,
     host |-> c, users |-> << >>]

\* The room record create-room stores.
NewRoom(videoUrl, c) ==
    [videoUrl |-> videoUrl, currentTime |-> 0, isPlaying |-> FALSE,
     host |-> c, users |-> <<c>>]

\* rooms.set(roomId, room)
RoomsSet(roomId, room) ==
    [r \in (DOMAIN rooms) \cup {roomId} |->
        IF r = roomId THEN room ELSE rooms[r]]

CreateReply(roomId) == [success |-> TRUE, roomId |-> roomId, isHost |-> TRUE]

\* nanoid(10) returns a random string: any identifier, with no check
\* against the rooms that exist.
CreateRoom(c, videoUrl) ==
    /\ status[c] = "connected"
    /\ \E roomId \in ids :
        /\ rooms' = RoomsSet(roomId, NewRoom(videoUrl, c))
        /\ sioRooms' = [sioRooms EXCEPT ![roomId] = @ \cup {c}]
        /\ reply' = CreateReply(roomId)
    /\ lastEvent' = Event("create-room", c, Undefined, videoUrl)
    /\ emitted' = NoEmits
    /\ before' = rooms
    /\ UNCHANGED <<status, deleted, promoted, sockets, ids>>
    /\ UNCHANGED clientVars

\* -------------------------------------------------------------- join-room
NotFoundReply == [success |-> FALSE, error |-> "Room not found"]

\* Variant: the caller is not added to the users.
JoinedRoomNotAdded(room, c) == room

\* room.users.set(socket.id, { socketId: socket.id })
JoinedRoom(room, c) == [room EXCEPT !.users = MapSet(@, c)]

\* The callback argument of a successful join, read from the room after the
\* caller was added.
JoinReply(room, c) ==
    [success |-> TRUE,
     roomState |-> [videoUrl |-> room.videoUrl,
                    currentTime |-> room.currentTime,
                    isPlaying |-> room.isPlaying,
                    isHost |-> (room.host = c),
                    userCount |-> Len(room.users)]]

\* Variant: a join that names no live room creates one for the caller.
JoinRoomOrCreate(c, roomId) ==
    /\ status[c] = "connected"
    /\ lastEvent' = Event("join-room", c, roomId, Undefined)
    /\ LET room == IF roomId \in DOMAIN rooms
                   THEN JoinedRoom(rooms[roomId], c)
                   ELSE NewRoom(Undefined, c)
           to == sioRooms[roomId] \cup {c}
       IN  /\ rooms' = RoomsSet(roomId, room)
           /\ sioRooms' = [sioRooms EXCEPT ![roomId] = to]
           /\ reply' = JoinReply(room, c)
           /\ emitted' = [NoEmits EXCEPT ![roomId] =
                 <<Emit("user-count-update",
                        [userCount |-> Len(room.users)], to)>>]
    /\ before' = rooms
    /\ UNCHANGED <<status, deleted, promoted, sockets, ids>>
    /\ UNCHANGED clientVars

JoinRoom(c, roomId) ==
    /\ status[c] = "connected"
    /\ lastEvent' = Event("join-room", c, roomId, Undefined)
    /\ IF roomId \notin DOMAIN rooms
       THEN /\ reply' = NotFoundReply
            /\ emitted' = NoEmits
            /\ UNCHANGED <<rooms, sioRooms>>
       ELSE LET room == JoinedRoom(rooms[roomId], c)
                to == sioRooms[roomId] \cup {c}
            IN  /\ rooms' = [rooms EXCEPT ![roomId] = room]
                /\ sioRooms' = [sioRooms EXCEPT ![roomId] = to]
                /\ reply' = JoinReply(room, c)
                /\ emitted' = [NoEmits EXCEPT ![roomId] =
                      <<Emit("user-count-update",
                             [userCount |-> Len(room.users)], to)>>]
    /\ before' = rooms
    /\ UNCHANGED <<status, deleted, promoted, sockets, ids>>
    /\ UNCHANGED clientVars

\* ------------------------------------------- play / pause / seek / fullscreen
\* Variant: the handler only checks that the room exists.
AuthorizedAnySender(roomId, c) == roomId \in DOMAIN rooms

\* The negation of `!room || room.host !== socket.id`.
Authorized(roomId, c) ==
    /\ roomId \in DOMAIN rooms
    /\ rooms[roomId].host = c

PlayedRoom(room, t) == [room EXCEPT !.isPlaying = TRUE, !.currentTime = t]

\* Variant: pause stores the flag and not the time.
PausedRoomFlagOnly(room, t) == [room EXCEPT !.isPlaying = FALSE]

PausedRoom(room, t) == [room EXCEPT !.isPlaying = FALSE, !.currentTime = t]

\* Variant: seek copies the play handler's two assignments.
SoughtRoomAsPlay(room, t) == [room EXCEPT !.isPlaying = TRUE, !.currentTime = t]

SoughtRoom(room, t) == [room EXCEPT !.currentTime = t]

\* Variant: the broadcast goes to the others (socket.to(roomId).emit).
ControlToOthers(name, c, roomId, arg, room, event, payload) ==
    /\ status[c] = "connected"
    /\ lastEvent' = Event(name, c, roomId, arg)
    /\ reply' = NoReply
    /\ IF ~(roomId \in DOMAIN rooms /\ rooms[roomId].host = c)
       THEN /\ emitted' = NoEmits
            /\ UNCHANGED rooms
       ELSE /\ rooms' = [rooms EXCEPT ![roomId] = room]
            /\ emitted' = [NoEmits EXCEPT ![roomId] =
                  <<Emit(event, payload, sioRooms[roomId] \ {c})>>]
    /\ promoted' = [r \in RoomIds |->
          IF r = roomId /\ promoted[r] = c THEN Undefined ELSE promoted[r]]
    /\ before' = rooms
    /\ UNCHANGED <<sioRooms, status, deleted, sockets, ids>>
    /\ UNCHANGED clientVars

\* The common shape of the four control handlers: drop the request unless
\* the sender is the room's host, else store `room` and broadcast.
Control(name, c, roomId, arg, room, event, payload) ==
    /\ status[c] = "connected"
    /\ lastEvent' = Event(name, c, roomId, arg)
    /\ reply' = NoReply
    /\ IF ~Authorized(roomId, c)
       THEN /\ emitted' = NoEmits
            /\ UNCHANGED rooms
       ELSE /\ rooms' = [rooms EXCEPT ![roomId] = room]
            /\ emitted' = [NoEmits EXCEPT ![roomId] =
                  <<Emit(event, payload, sioRooms[roomId])>>]
    /\ promoted' = [r \in RoomIds |->
          IF r = roomId /\ promoted[r] = c THEN Undefined ELSE promoted[r]]
    /\ before' = rooms
    /\ UNCHANGED <<sioRooms, status, deleted, sockets, ids>>
    /\ UNCHANGED clientVars

Play(c, roomId, t) ==
    Control("play", c, roomId, t,
            IF roomId \in DOMAIN rooms THEN PlayedRoom(rooms[roomId], t) ELSE Undefined,
            "play-event", [currentTime |-> t])

Pause(c, roomId, t) ==
    Control("pause", c, roomId, t,
            IF roomId \in DOMAIN rooms THEN PausedRoom(rooms[roomId], t) ELSE Undefined,
            "pause-event", [currentTime |-> t])

Seek(c, roomId, t) ==
    Control("seek", c, roomId, t,
            IF roomId \in DOMAIN rooms THEN SoughtRoom(rooms[roomId], t) ELSE Undefined,
            "seek-event", [currentTime |-> t])

Fullscreen(c, roomId, isFullscreen) ==
    Control("fullscreen", c, roomId, isFullscreen,
            IF roomId \in DOMAIN rooms THEN rooms[roomId] ELSE Undefined,
            "fullscreen-event", [isFullscreen |-> isFullscreen])

\* ------------------------------------------------------------- disconnect
\* Variant: the loop stops at the first room that holds the socket.
RoomsOfFirstOnly(c) ==
    {r \in DOMAIN rooms :
        /\ MapHas(rooms[r].users, c)
        /\ \A q \in DOMAIN rooms : MapHas(rooms[q].users, c) => r <= q}

\* The rooms the forEach body touches: those whose users hold the socket.
RoomsOf(c) == {r \in DOMAIN rooms : MapHas(rooms[r].users, c)}

\* room.users after room.users.delete(socket.id)
UsersAfterLeave(room, c) == MapDelete(room.users, c)

\* Variant: the empty-room check is missing.
RoomEmptiedNever(room, c) == FALSE

\* `room.users.size === 0` after the delete
RoomEmptied(room, c) == Len(UsersAfterLeave(room, c)) = 0

\* Variant: the departing socket is never recognised as the host.
HostLeftNever(room, c) == FALSE

\* `room.host === socket.id`, in a room that is not empty after the delete
HostLeft(room, c) == room.host = c

\* Variant: the successor is read before the departing socket is deleted.
NewHostBeforeDelete(room, c) == FirstKey(room.users)

\* const newHost = room.users.keys().next().value
NewHost(room, c) == FirstKey(UsersAfterLeave(room, c))

\* Variant: the user is deleted now and the host reassigned in a later
\* step, so other handlers run on the room in between.
LeftRoomHostPending(room, c) == [room EXCEPT !.users = UsersAfterLeave(room, c)]

\* A room that keeps users, after the forEach body ran on it.
LeftRoom(room, c) ==
    [room EXCEPT !.users = UsersAfterLeave(room, c),
                 !.host = IF HostLeft(room, c) THEN NewHost(room, c) ELSE @]

\* Variant: the host-changed emit is missing.
LeaveEmitsCountOnly(room, c, to) ==
    <<Emit("user-count-update",
           [userCount |-> Len(UsersAfterLeave(room, c))], to)>>

\* The broadcasts of the forEach body for a room that keeps users.
LeaveEmits(room, c, to) ==
    (IF HostLeft(room, c)
     THEN <<Emit("host-changed", [newHostId |-> NewHost(room, c)], to)>>
     ELSE <<>>)
    \o <<Emit("user-count-update",
              [userCount |-> Len(UsersAfterLeave(room, c))], to)>>

\* The room ids rooms.delete(roomId) removes.
EmptiedBy(c) == {r \in RoomsOf(c) : RoomEmptied(rooms[r], c)}

\* The registry after rooms.forEach(...) for the departing socket.
RoomsAfterDisconnect(c) ==
    [r \in (DOMAIN rooms) \ EmptiedBy(c) |->
        IF r \in RoomsOf(c) THEN LeftRoom(rooms[r], c) ELSE rooms[r]]

\* socket.io removes the socket from every socket.io room before the
\* "disconnect" listener runs.
Disconnect(c) ==
    /\ status[c] = "connected"
    /\ status' = [status EXCEPT ![c] = "disconnected"]
    /\ lastEvent' = Event("disconnect", c, Undefined, Undefined)
    /\ reply' = NoReply
    /\ sioRooms' = [r \in RoomIds |-> sioRooms[r] \ {c}]
    /\ rooms' = RoomsAfterDisconnect(c)
    /\ deleted' = deleted \cup EmptiedBy(c)
    /\ promoted' = [r \in RoomIds |->
          IF r \in RoomsOf(c) \ EmptiedBy(c) /\ HostLeft(rooms[r], c)
          THEN NewHost(rooms[r], c)
          ELSE IF promoted[r] = c \/ r \in EmptiedBy(c)
               THEN Undefined ELSE promoted[r]]
    /\ before' = rooms
    /\ UNCHANGED <<sockets, ids>>
    /\ UNCHANGED clientVars
    /\ emitted' = [r \in RoomIds |->
          IF r \in RoomsOf(c) \ EmptiedBy(c)
          THEN LeaveEmits(rooms[r], c, sioRooms[r] \ {c})
          ELSE <<>>]

\* ------------------------------------------------------------- Leave Room
\* The room page's "Leave Room" button is onClick={() => navigate("/")}: the
\* page unmounts and its effect cleanup removes the listeners.  The shared
\* socket stays connected and nothing is sent, so no server handler runs.
LeaveRoom(c, roomId) ==
    /\ status[c] = "connected"
    /\ roomId \in DOMAIN rooms
    /\ MapHas(rooms[roomId].users, c)
    /\ lastEvent' = Event("leave-room", c, roomId, Undefined)
    /\ reply' = NoReply
    /\ emitted' = NoEmits
    /\ before' = rooms
    /\ UNCHANGED <<rooms, sioRooms, status, deleted, promoted, sockets, ids>>
    /\ UNCHANGED clientVars

\* ------------------------------------------------------------------- Next
Next ==
    \/ \E c \in Conns : Connect(c) /\ UNCHANGED pageVars
    \/ \E c \in Conns, videoUrl \in Urls : CreateRoom(c, videoUrl) /\ UNCHANGED pageVars
    \/ \E c \in Conns, roomId \in RoomIds : JoinRoom(c, roomId) /\ UNCHANGED pageVars
    \/ \E c \in Conns, roomId \in RoomIds, t \in Times : Play(c, roomId, t) /\ UNCHANGED pageVars
    \/ \E c \in Conns, roomId \in RoomIds, t \in Times : Pause(c, roomId, t) /\ UNCHANGED pageVars
    \/ \E c \in Conns, roomId \in RoomIds, t \in Times : Seek(c, roomId, t) /\ UNCHANGED pageVars
    \/ \E c \in Conns, roomId \in RoomIds, b \in BOOLEAN : Fullscreen(c, roomId, b) /\ UNCHANGED pageVars
    \/ \E c \in Conns : Disconnect(c) /\ UNCHANGED pageVars
    \/ \E c \in Conns, roomId \in RoomIds : LeaveRoom(c, roomId) /\ UNCHANGED pageVars

Spec == Init /\ [][Next]_vars

\* ============================================================= room page
\* The room page of one client (RoomPage): its <video> element, the
\* listeners its effect installs on the element and on the socket, and its
\* timers.  What the server sends is an input here: any event with any
\* payload, in any order.

\* socket.id of this client.
ClientId == 1

\* Math.abs
Abs(x) == IF x < 0 THEN -x ELSE x

\* 0.5 seconds, in tenths.
DriftThreshold == 5

\* Variant: drift of exactly the threshold is corrected too.
SeekNeededAtThreshold(local, remote) == Abs(local - remote) >= DriftThreshold

\* `timeDiff > 0.5` in syncVideo
SeekNeeded(local, remote) == Abs(local - remote) > DriftThreshold

\* Variant: only the host check guards the device listeners.
SuppressedUnlessHost(host, syncing) == ~host

\* `!isHost || isSyncingRef.current` in handlePlay / handlePause / handleSeeked
Suppressed(host, syncing) == ~host \/ syncing

Command(cmd, time) == [cmd |-> cmd, time |-> time]

Message(event, currentTime) == [event |-> event, currentTime |-> currentTime]

\* The control request a device listener emits for a media event.
RequestOf(media) == IF media = "seeked" THEN "seek" ELSE media

\* The <video> element, told to play (played = TRUE: the play() promise
\* may also reject and leave it paused) or to pause: the state it is in and
\* the media event it queues.  An element already in the state queues nothing.
PausedAfter(shouldPlay, played) ==
    IF shouldPlay = "true" THEN (videoPaused /\ ~played)
    ELSE IF shouldPlay = "false" THEN TRUE
    ELSE videoPaused

QueuedBy(shouldPlay, played) ==
    IF shouldPlay = "true" /\ videoPaused /\ played THEN <<"play">>
    ELSE IF shouldPlay = "false" /\ ~videoPaused THEN <<"pause">>
    ELSE << >>

CommandsFor(shouldPlay) ==
    IF shouldPlay = "true" THEN <<Command("play", Undefined)>>
    ELSE IF shouldPlay = "false" THEN <<Command("pause", Undefined)>>
    ELSE << >>

\* syncVideo(currentTime, shouldPlay), called by the play-event,
\* pause-event and seek-event listeners.
syncVideo(name, currentTime, shouldPlay) ==
    \E played \in BOOLEAN :
        LET seek == SeekNeeded(videoTime, currentTime)
            queued == (IF seek THEN <<"seeked">> ELSE << >>) \o QueuedBy(shouldPlay, played)
        IN  /\ listening
            /\ timers < MaxTimers
            /\ Len(mediaEvents) + Len(queued) <= MaxPending
            /\ isSyncingRef' = TRUE
            /\ videoTime' = IF seek THEN currentTime ELSE videoTime
            /\ videoPaused' = PausedAfter(shouldPlay, played)
            /\ mediaEvents' = mediaEvents \o queued
            /\ timers' = timers + 1
            /\ commands' = (IF seek THEN <<Command("seek", currentTime)>> ELSE << >>)
                              \o CommandsFor(shouldPlay)
            /\ sent' = << >>
            /\ clientEvent' = ClientEvent(name, currentTime)
            /\ UNCHANGED <<isHost, effectIsHost, roomNotFound, joins, snapshots>>
            /\ UNCHANGED listening
    /\ UNCHANGED serverVars

PlayEvent(currentTime) == syncVideo("play-event", currentTime, "true")

PauseEvent(currentTime) == syncVideo("pause-event", currentTime, "false")

SeekEvent(currentTime) == syncVideo("seek-event", currentTime, "undefined")

\* Variant: the timer callback does not clear the flag.
ResetTimerKeepsFlag ==
    /\ timers > 0
    /\ timers' = timers - 1
    /\ clientEvent' = ClientStep("reset-timer")
    /\ commands' = << >>
    /\ sent' = << >>
    /\ UNCHANGED <<videoTime, videoPaused, mediaEvents, isSyncingRef, isHost, effectIsHost,
                   roomNotFound, joins, snapshots>>
    /\ UNCHANGED listening
    /\ UNCHANGED serverVars

\* setTimeout(() => { isSyncingRef.current = false }, 50)
ResetTimer ==
    /\ timers > 0
    /\ timers' = timers - 1
    /\ isSyncingRef' = FALSE
    /\ clientEvent' = ClientStep("reset-timer")
    /\ commands' = << >>
    /\ sent' = << >>
    /\ UNCHANGED <<videoTime, videoPaused, mediaEvents, isHost, effectIsHost,
                   roomNotFound, joins, snapshots>>
    /\ UNCHANGED listening
    /\ UNCHANGED serverVars

\* handlePlay / handlePause / handleSeeked: the element dispatches one of
\* the media events it has queued.
MediaEvent(i) ==
    /\ listening
    /\ i \in DOMAIN mediaEvents
    /\ mediaEvents' = SubSeq(mediaEvents, 1, i - 1)
                         \o SubSeq(mediaEvents, i + 1, Len(mediaEvents))
    /\ sent' = IF Suppressed(effectIsHost, isSyncingRef) THEN << >>
               ELSE <<Message(RequestOf(mediaEvents[i]), videoTime)>>
    /\ clientEvent' = ClientEvent(mediaEvents[i], Undefined)
    /\ commands' = << >>
    /\ UNCHANGED <<videoTime, videoPaused, isSyncingRef, isHost, effectIsHost,
                   roomNotFound, timers, joins, snapshots>>
    /\ UNCHANGED listening
    /\ UNCHANGED serverVars

\* The element dispatches a media event after the effect's cleanup removed
\* the listeners and no new ones were installed: nothing handles it.
MediaEventUnheard(i) ==
    /\ ~listening
    /\ i \in DOMAIN mediaEvents
    /\ mediaEvents' = SubSeq(mediaEvents, 1, i - 1)
                         \o SubSeq(mediaEvents, i + 1, Len(mediaEvents))
    /\ clientEvent' = ClientStep("unheard")
    /\ commands' = << >>
    /\ sent' = << >>
    /\ UNCHANGED <<videoTime, videoPaused, isSyncingRef, isHost, effectIsHost,
                   roomNotFound, timers, joins, snapshots>>
    /\ UNCHANGED listening
    /\ UNCHANGED serverVars

\* socket.on("host-changed", ...)
HostChanged(newHostId) ==
    /\ listening
    /\ isHost' = IF ClientId = newHostId THEN TRUE ELSE isHost
    /\ clientEvent' = ClientStep("host-changed")
    /\ commands' = << >>
    /\ sent' = << >>
    /\ UNCHANGED <<videoTime, videoPaused, mediaEvents, isSyncingRef, effectIsHost,
                   roomNotFound, timers, joins, snapshots>>
    /\ UNCHANGED listening
    /\ UNCHANGED serverVars

\* The page renders the <video> element unless it shows "Room Not Found"
\* or the "Room Closed" modal.
VideoRendered == ~roomNotFound /\ ~roomClosed

\* The effect runs again because isHost changed (it is in the dependency
\* list): the cleanup removes the old listeners; with the <video> rendered,
\* new listeners capture the new value and join-room is emitted again,
\* without it the effect returns at `if (!video) return`.
RunEffect ==
    /\ isHost # effectIsHost
    /\ effectIsHost' = isHost
    /\ IF VideoRendered
       THEN /\ joins < MaxInFlight
            /\ joins' = joins + 1
            /\ listening' = TRUE
            /\ sent' = <<Message("join-room", Undefined)>>
       ELSE /\ listening' = FALSE
            /\ sent' = << >>
            /\ UNCHANGED joins
    /\ clientEvent' = ClientStep("effect")
    /\ commands' = << >>
    /\ UNCHANGED <<videoTime, videoPaused, mediaEvents, isSyncingRef, isHost,
                   roomNotFound, timers, snapshots>>
    /\ UNCHANGED serverVars

\* The callback of join-room.
JoinCallback(success, roomState) ==
    /\ joins > 0
    /\ joins' = joins - 1
    /\ IF success
       THEN /\ Len(snapshots) < MaxInFlight
            /\ isHost' = roomState.isHost
            /\ snapshots' = Append(snapshots,
                  [currentTime |-> roomState.currentTime, isPlaying |-> roomState.isPlaying])
            /\ UNCHANGED roomNotFound
       ELSE /\ roomNotFound' = TRUE
            /\ UNCHANGED <<isHost, snapshots>>
    /\ clientEvent' = ClientStep("join-reply")
    /\ commands' = << >>
    /\ sent' = << >>
    /\ UNCHANGED <<videoTime, videoPaused, mediaEvents, isSyncingRef, effectIsHost, timers>>
    /\ UNCHANGED listening
    /\ UNCHANGED serverVars

\* The currentTime payloads the server is taken to send: the start of the
\* video and its end.  With every local position they give every
\* difference from 0 to MaxVideoTime.
RemoteTimes == {0, MaxVideoTime}

\* The roomState payloads tried: the room at its start or at its end.
RoomStates ==
    [currentTime : {0, MaxVideoTime}, isPlaying : BOOLEAN, isHost : BOOLEAN]

\* setTimeout(() => { video.currentTime = ...; play() or pause() }, 100)
ApplySnapshot ==
    /\ snapshots # << >>
    /\ \E played \in BOOLEAN :
        LET snapshot == Head(snapshots)
            shouldPlay == IF snapshot.isPlaying THEN "true" ELSE "false"
            queued == <<"seeked">> \o QueuedBy(shouldPlay, played)
        IN  /\ Len(mediaEvents) + Len(queued) <= MaxPending
            /\ videoTime' = snapshot.currentTime
            /\ videoPaused' = PausedAfter(shouldPlay, played)
            /\ mediaEvents' = mediaEvents \o queued
            /\ commands' = <<Command("seek", snapshot.currentTime)>> \o CommandsFor(shouldPlay)
    /\ snapshots' = Tail(snapshots)
    /\ clientEvent' = ClientStep("snapshot-timer")
    /\ sent' = << >>
    /\ UNCHANGED <<isSyncingRef, isHost, effectIsHost, roomNotFound, timers, joins>>
    /\ UNCHANGED listening
    /\ UNCHANGED serverVars

\* The user works the element's controls; the element plays on.
Gesture(name, currentTime, shouldPlay) ==
    LET queued == (IF name = "user-seek" THEN <<"seeked">> ELSE << >>)
                      \o QueuedBy(shouldPlay, TRUE)
    IN  /\ VideoRendered
        /\ Len(mediaEvents) + Len(queued) <= MaxPending
        /\ videoTime' = IF name = "user-seek" THEN currentTime ELSE videoTime
        /\ videoPaused' = PausedAfter(shouldPlay, TRUE)
        /\ mediaEvents' = mediaEvents \o queued
        /\ clientEvent' = ClientStep(name)
        /\ commands' = << >>
        /\ sent' = << >>
        /\ UNCHANGED <<isSyncingRef, isHost, effectIsHost, roomNotFound, timers,
                       joins, snapshots>>
        /\ UNCHANGED listening
    /\ UNCHANGED serverVars

UserPlay == videoPaused /\ Gesture("user-play", Undefined, "true")

UserPause == ~videoPaused /\ Gesture("user-pause", Undefined, "false")

UserSeek(currentTime) == Gesture("user-seek", currentTime, "undefined")

Playback ==
    /\ ~videoPaused
    /\ videoTime < MaxVideoTime
    /\ videoTime' = videoTime + 1
    /\ clientEvent' = ClientStep("timeupdate")
    /\ commands' = << >>
    /\ sent' = << >>
    /\ UNCHANGED <<videoPaused, mediaEvents, isSyncingRef, isHost, effectIsHost,
                   roomNotFound, timers, joins, snapshots>>
    /\ UNCHANGED listening
    /\ UNCHANGED serverVars

\* The server side of the page's socket is left out: no room, no other socket.
ClientInit ==
    /\ rooms = << >>
    /\ sioRooms = [r \in RoomIds |-> {}]
    /\ status = [c \in Conns |-> "idle"]
    /\ deleted = {}
    /\ promoted = [r \in RoomIds |-> Undefined]
    /\ sockets = {ClientId}
    /\ ids = {}
    /\ before = << >>
    /\ lastEvent = Event("listen", Undefined, Undefined, Undefined)
    /\ reply = NoReply
    /\ emitted = NoEmits
    /\ Mounted

ClientNext ==
    \/ \E t \in RemoteTimes : PlayEvent(t) /\ UNCHANGED pageVars
    \/ \E t \in RemoteTimes : PauseEvent(t) /\ UNCHANGED pageVars
    \/ \E t \in RemoteTimes : SeekEvent(t) /\ UNCHANGED pageVars
    \/ ResetTimer /\ UNCHANGED pageVars
    \/ \E i \in 1..MaxPending : MediaEvent(i) /\ UNCHANGED pageVars
    \/ \E i \in 1..MaxPending : MediaEventUnheard(i) /\ UNCHANGED pageVars
    \/ \E newHostId \in Conns : HostChanged(newHostId) /\ UNCHANGED pageVars
    \/ RunEffect /\ UNCHANGED pageVars
    \/ \E success \in BOOLEAN, roomState \in RoomStates : JoinCallback(success, roomState) /\ UNCHANGED pageVars
    \/ ApplySnapshot /\ UNCHANGED pageVars
    \/ UserPlay /\ UNCHANGED pageVars
    \/ UserPause /\ UNCHANGED pageVars
    \/ \E t \in VideoTimes : UserSeek(t) /\ UNCHANGED pageVars
    \/ Playback /\ UNCHANGED pageVars

ClientSpec == ClientInit /\ [][ClientNext]_vars

\* A timer the page has set fires: the browser's event loop runs every
\* setTimeout callback that is due.
ClientFairSpec == ClientSpec /\ WF_vars(ResetTimer /\ UNCHANGED pageVars)

\* ===================================================== room page, whole
\* The same page with the rest of its listeners (fullscreen-event,
\* fullscreenchange, room-closed), its buttons and its unmounting.  A page
\* that was unmounted is left alone: what its leftover timers and callbacks
\* do, they do to an element and a component that are off screen.

\* One reset timer fired: every window still open is one timer shorter.
Elapsed(ws) == [i \in DOMAIN ws |-> IF ws[i] > 0 THEN ws[i] - 1 ELSE 0]

\* ws without its i-th element
Without(ws, i) == SubSeq(ws, 1, i - 1) \o SubSeq(ws, i + 1, Len(ws))

\* The media events the step queued get the given window.
Tagged(window) ==
    windows' = windows \o [i \in 1..(Len(mediaEvents') - Len(mediaEvents)) |-> window]

\* The <video> element leaves the document while it is the fullscreen
\* element: the document leaves fullscreen and fires fullscreenchange.
ElementRemoved ==
    /\ fullscreen' = FALSE
    /\ fsEvents' = IF fullscreen THEN Append(fsEvents, 0) ELSE fsEvents

\* A remote event: the media events it queues are inside the window that
\* the reset timer it sets will close.
EchoSyncVideo(name, currentTime, shouldPlay) ==
    /\ syncVideo(name, currentTime, shouldPlay)
    /\ Tagged(timers')
    /\ echo' = 0
    /\ UNCHANGED <<lifeVars, fsVars, fsPayload, netVars>>

EchoResetTimer ==
    /\ ResetTimer
    /\ windows' = Elapsed(windows)
    /\ echo' = 0
    /\ UNCHANGED <<lifeVars, fsVars, fsPayload, netVars>>

EchoMediaEvent(i) ==
    /\ MediaEvent(i) \/ MediaEventUnheard(i)
    /\ windows' = Without(windows, i)
    /\ echo' = windows[i]
    /\ UNCHANGED <<lifeVars, fsVars, fsPayload, netVars>>

\* A step whose media events no remote event caused.
EchoFree(step) ==
    /\ step
    /\ Tagged(0)
    /\ echo' = 0
    /\ UNCHANGED <<lifeVars, fsVars, fsPayload, netVars>>

EchoNext ==
    \/ \E t \in RemoteTimes : EchoSyncVideo("play-event", t, "true")
    \/ \E t \in RemoteTimes : EchoSyncVideo("pause-event", t, "false")
    \/ \E t \in RemoteTimes : EchoSyncVideo("seek-event", t, "undefined")
    \/ EchoResetTimer
    \/ \E i \in 1..MaxPending : EchoMediaEvent(i)
    \/ \E newHostId \in Conns : EchoFree(HostChanged(newHostId))
    \/ EchoFree(RunEffect)
    \/ \E success \in BOOLEAN, roomState \in RoomStates :
          EchoFree(JoinCallback(success, roomState))
    \/ EchoFree(ApplySnapshot)
    \/ EchoFree(UserPlay)
    \/ EchoFree(UserPause)
    \/ \E t \in RemoteTimes : EchoFree(UserSeek(t))

EchoSpec == ClientInit /\ [][EchoNext]_vars

\* A step of the media side on a mounted page.
Mediated(step) ==
    /\ mounted
    /\ step
    /\ echo' = 0
    /\ fsPayload' = FALSE
    /\ UNCHANGED <<lifeVars, fsVars, windows, netVars>>

\* A failed join replaces the page, <video> included, by "Room Not Found".
PageJoinCallback(success, roomState) ==
    /\ mounted
    /\ JoinCallback(success, roomState)
    /\ IF success THEN UNCHANGED <<fullscreen, fsEvents>> ELSE ElementRemoved
    /\ echo' = 0
    /\ fsPayload' = FALSE
    /\ UNCHANGED <<lifeVars, showFullscreenPrompt, fsTimers, windows, netVars>>

\* socket.on("fullscreen-event", ...).  requestFullscreen is granted or
\* refused by the browser (it wants a user gesture, and an element that is
\* in the document); a document already in the state asked for changes
\* nothing and fires nothing.
FullscreenEvent(isFullscreen) ==
    /\ mounted
    /\ listening
    /\ fsTimers < MaxTimers
    /\ Len(fsEvents) < MaxPending
    /\ isSyncingRef' = TRUE
    /\ \E granted \in BOOLEAN :
        /\ granted => VideoRendered
        /\ IF isFullscreen
           THEN IF effectIsHost
                THEN /\ commands' = <<Command("requestFullscreen", Undefined)>>
                     /\ fullscreen' = (fullscreen \/ granted)
                     /\ UNCHANGED showFullscreenPrompt
                ELSE /\ commands' = << >>
                     /\ showFullscreenPrompt' = TRUE
                     /\ UNCHANGED fullscreen
           ELSE /\ commands' = <<Command("exitFullscreen", Undefined)>>
                /\ showFullscreenPrompt' = FALSE
                /\ fullscreen' = FALSE
    /\ fsEvents' = IF fullscreen' # fullscreen
                   THEN Append(fsEvents, fsTimers + 1) ELSE fsEvents
    /\ fsTimers' = fsTimers + 1
    /\ clientEvent' = ClientEvent("fullscreen-event", Undefined)
    /\ fsPayload' = isFullscreen
    /\ sent' = << >>
    /\ echo' = 0
    /\ UNCHANGED <<videoTime, videoPaused, mediaEvents, isHost, effectIsHost,
                   roomNotFound, listening, timers, joins, snapshots>>
    /\ UNCHANGED <<lifeVars, windows, netVars>>
    /\ UNCHANGED serverVars

\* setTimeout(() => { isSyncingRef.current = false }, 100)
FullscreenResetTimer ==
    /\ mounted
    /\ fsTimers > 0
    /\ fsTimers' = fsTimers - 1
    /\ isSyncingRef' = FALSE
    /\ fsEvents' = Elapsed(fsEvents)
    /\ clientEvent' = ClientStep("fullscreen-reset-timer")
    /\ commands' = << >>
    /\ sent' = << >>
    /\ echo' = 0
    /\ fsPayload' = FALSE
    /\ UNCHANGED <<videoTime, videoPaused, mediaEvents, isHost, effectIsHost,
                   roomNotFound, listening, timers, joins, snapshots>>
    /\ UNCHANGED <<lifeVars, fullscreen, showFullscreenPrompt, windows, netVars>>
    /\ UNCHANGED serverVars

\* handleFullscreenChange: the document dispatches a fullscreenchange
\* event it has queued.  Without listeners nothing handles it.
FullscreenChange(i) ==
    /\ mounted
    /\ i \in DOMAIN fsEvents
    /\ fsEvents' = Without(fsEvents, i)
    /\ echo' = fsEvents[i]
    /\ IF listening
       THEN /\ clientEvent' = ClientEvent("fullscreenchange", Undefined)
            /\ sent' = IF Suppressed(effectIsHost, isSyncingRef) THEN << >>
                       ELSE <<[event |-> "fullscreen", isFullscreen |-> fullscreen]>>
       ELSE /\ clientEvent' = ClientStep("unheard")
            /\ sent' = << >>
    /\ commands' = << >>
    /\ fsPayload' = FALSE
    /\ UNCHANGED <<videoTime, videoPaused, mediaEvents, isSyncingRef, isHost, effectIsHost,
                   roomNotFound, listening, timers, joins, snapshots>>
    /\ UNCHANGED <<lifeVars, fullscreen, showFullscreenPrompt, fsTimers, windows, netVars>>
    /\ UNCHANGED serverVars

\* A step of the user that touches neither the <video> nor the socket.
UserStep(name) ==
    /\ clientEvent' = ClientStep(name)
    /\ commands' = << >>
    /\ sent' = << >>
    /\ echo' = 0
    /\ fsPayload' = FALSE
    /\ UNCHANGED <<videoTime, videoPaused, mediaEvents, isSyncingRef, isHost, effectIsHost,
                   roomNotFound, timers, joins, snapshots>>
    /\ UNCHANGED windows
    /\ UNCHANGED serverVars

\* A step of the page that sends and receives nothing.
Offline(step) == step /\ UNCHANGED netVars

\* The user enters or leaves fullscreen with the element's controls or Esc.
UserFullscreen ==
    /\ mounted
    /\ VideoRendered \/ fullscreen
    /\ Len(fsEvents) < MaxPending
    /\ fullscreen' = ~fullscreen
    /\ fsEvents' = Append(fsEvents, 0)
    /\ UserStep("user-fullscreen")
    /\ UNCHANGED <<lifeVars, showFullscreenPrompt, fsTimers, listening>>

\* The "Enter Fullscreen" button of the prompt, rendered while
\* showFullscreenPrompt && !isHost.
PromptEnter ==
    /\ mounted
    /\ VideoRendered
    /\ showFullscreenPrompt /\ ~isHost
    /\ Len(fsEvents) < MaxPending
    /\ fullscreen' = TRUE
    /\ fsEvents' = IF fullscreen THEN fsEvents ELSE Append(fsEvents, 0)
    /\ showFullscreenPrompt' = FALSE
    /\ UserStep("prompt-enter")
    /\ UNCHANGED <<lifeVars, fsTimers, listening>>

\* The prompt's close button.
PromptDismiss ==
    /\ mounted
    /\ VideoRendered
    /\ showFullscreenPrompt /\ ~isHost
    /\ showFullscreenPrompt' = FALSE
    /\ UserStep("prompt-dismiss")
    /\ UNCHANGED <<lifeVars, fullscreen, fsEvents, fsTimers, listening>>

\* socket.on("room-closed", ...): the modal replaces the page, <video>
\* included, and a timer is set to navigate home.
RoomClosed ==
    /\ mounted
    /\ listening
    /\ navTimers < MaxTimers
    /\ Len(fsEvents) < MaxPending
    /\ roomClosed' = TRUE
    /\ navTimers' = navTimers + 1
    /\ ElementRemoved
    /\ UserStep("room-closed")
    /\ UNCHANGED <<mounted, showFullscreenPrompt, fsTimers, listening>>

\* navigate("/"): the router unmounts the page and the effect's cleanup
\* removes the listeners.
Unmounted ==
    /\ mounted
    /\ mounted' = FALSE
    /\ listening' = FALSE
    /\ ElementRemoved
    /\ UNCHANGED <<roomClosed, showFullscreenPrompt, fsTimers>>

\* setTimeout(() => { navigate("/") }, 3000)
NavigateTimer ==
    /\ navTimers > 0
    /\ navTimers' = navTimers - 1
    /\ Unmounted
    /\ UserStep("navigate-timer")

\* "Leave Room", "Go Home" and "Go Home Now": onClick={() => navigate("/")}
NavigateHome ==
    /\ Unmounted
    /\ UserStep("navigate-home")
    /\ UNCHANGED navTimers

\* The page's queues and timers, all kinds together, stay within the bounds.
PageBounded ==
    /\ Len(mediaEvents') + Len(fsEvents') <= MaxPending
    /\ timers' + fsTimers' + navTimers' <= MaxTimers

PageNext ==
    \/ \E t \in RemoteTimes : Mediated(syncVideo("play-event", t, "true")) /\ PageBounded
    \/ \E t \in RemoteTimes : Mediated(syncVideo("pause-event", t, "false")) /\ PageBounded
    \/ \E t \in RemoteTimes : Mediated(syncVideo("seek-event", t, "undefined")) /\ PageBounded
    \/ Mediated(ResetTimer) /\ PageBounded
    \/ \E i \in 1..MaxPending : Mediated(MediaEvent(i)) /\ PageBounded
    \/ \E i \in 1..MaxPending : Mediated(MediaEventUnheard(i)) /\ PageBounded
    \/ \E newHostId \in Conns : Mediated(HostChanged(newHostId)) /\ PageBounded
    \/ Mediated(RunEffect) /\ PageBounded
    \/ \E success \in BOOLEAN, roomState \in RoomStates :
          PageJoinCallback(success, roomState) /\ PageBounded
    \/ \E isFullscreen \in BOOLEAN : FullscreenEvent(isFullscreen) /\ PageBounded
    \/ FullscreenResetTimer /\ PageBounded
    \/ \E i \in 1..MaxPending : FullscreenChange(i) /\ PageBounded
    \/ Offline(UserFullscreen) /\ PageBounded
    \/ Offline(PromptEnter) /\ PageBounded
    \/ Offline(PromptDismiss) /\ PageBounded
    \/ Offline(RoomClosed) /\ PageBounded
    \/ Offline(NavigateTimer) /\ PageBounded
    \/ Offline(NavigateHome) /\ PageBounded

PageSpec == ClientInit /\ [][PageNext]_vars

\* =============================================== server and one room page
\* The server together with the browser tab that owns socket ClientId.  The
\* tab is on the home page (no room page mounted) or on the room page of
\* one route.  The other sockets are driven as in the server's own
\* specification.  Requests and messages of the tab's socket are queued in
\* order; play, pause, seek and fullscreen, which read and write neither
\* host nor users, are left out.

\* The tab on the home page, socket not yet connected.
SystemInit ==
    /\ rooms = << >>
    /\ sioRooms = [r \in RoomIds |-> {}]
    /\ status = [c \in Conns |-> "idle"]
    /\ deleted = {}
    /\ promoted = [r \in RoomIds |-> Undefined]
    /\ \E n \in 1..(MaxPeers + 1), m \in 1..MaxRoomIds :
        /\ n + m <= MaxScope
        /\ sockets = 1..n
        /\ ids = 1..m
    /\ before = << >>
    /\ lastEvent = Event("listen", Undefined, Undefined, Undefined)
    /\ reply = NoReply
    /\ emitted = NoEmits
    /\ videoTime = 0
    /\ videoPaused = TRUE
    /\ mediaEvents = << >>
    /\ isSyncingRef = FALSE
    /\ isHost = FALSE
    /\ effectIsHost = FALSE
    /\ roomNotFound = FALSE
    /\ listening = FALSE
    /\ timers = 0
    /\ joins = 0
    /\ snapshots = << >>
    /\ clientEvent = ClientStep("home")
    /\ commands = << >>
    /\ sent = << >>
    /\ mounted = FALSE
    /\ roomClosed = FALSE
    /\ navTimers = 0
    /\ fullscreen = FALSE
    /\ showFullscreenPrompt = FALSE
    /\ fsEvents = << >>
    /\ fsTimers = 0
    /\ windows = << >>
    /\ echo = 0
    /\ fsPayload = FALSE
    /\ displayed = Undefined
    /\ toServer = << >>
    /\ toClient = << >>
    /\ userCount = 1

\* What one handler run emits to the tab's socket, room by room.
RECURSIVE EmitsFor(_, _)
EmitsFor(ems, r) ==
    IF r = 0 THEN << >>
    ELSE EmitsFor(ems, r - 1) \o SelectSeq(ems[r], LAMBDA e : ClientId \in e.to)

\* A handler run for another socket; what it emits to the tab's socket is
\* on its way.
Served(handler) ==
    /\ handler
    /\ toClient' = toClient \o EmitsFor(emitted', MaxRoomIds)
    /\ Len(toClient') <= MaxInbox
    /\ UNCHANGED <<lifeVars, fsVars, windows, echo, fsPayload, displayed, toServer, userCount>>

\* The home page emits create-room.  (Its callback navigates to the room
\* page: OpenRoom.)
HomeCreateRoom(videoUrl) ==
    /\ ~mounted
    /\ Served(CreateRoom(ClientId, videoUrl))

\* The server handles the oldest join-room of the tab; the callback's
\* argument travels back, and after it what the handler emits to the room.
ServeJoin ==
    /\ toServer # << >>
    /\ JoinRoom(ClientId, Head(toServer))
    /\ toServer' = Tail(toServer)
    /\ toClient' = Append(toClient, [event |-> "join-reply", payload |-> reply', to |-> {ClientId}])
                      \o EmitsFor(emitted', MaxRoomIds)
    /\ Len(toClient') <= MaxInbox
    /\ UNCHANGED <<lifeVars, fsVars, windows, echo, fsPayload, displayed, userCount>>

\* The tab is closed or loses its connection: what was queued is dropped.
TabDisconnect ==
    /\ Disconnect(ClientId)
    /\ toServer' = << >>
    /\ toClient' = << >>
    /\ UNCHANGED <<lifeVars, fsVars, windows, echo, fsPayload, displayed, userCount>>

\* The router mounts RoomPage for /room/:roomId, from the home page: state
\* and refs start at their initial values, the effect installs the
\* listeners and emits join-room.
OpenRoom(roomId) ==
    /\ ~mounted
    /\ status[ClientId] # "disconnected"
    /\ Len(toServer) < MaxInFlight
    /\ \A i \in DOMAIN toClient : toClient[i].event # "join-reply"
    /\ mounted' = TRUE
    /\ displayed' = roomId
    /\ toServer' = Append(toServer, roomId)
    /\ videoTime' = 0
    /\ videoPaused' = TRUE
    /\ mediaEvents' = << >>
    /\ isSyncingRef' = FALSE
    /\ isHost' = FALSE
    /\ effectIsHost' = FALSE
    /\ roomNotFound' = FALSE
    /\ listening' = TRUE
    /\ timers' = 0
    /\ joins' = 1
    /\ snapshots' = << >>
    /\ clientEvent' = ClientStep("mount")
    /\ commands' = << >>
    /\ sent' = <<Message("join-room", Undefined)>>
    /\ roomClosed' = FALSE
    /\ navTimers' = 0
    /\ fullscreen' = FALSE
    /\ showFullscreenPrompt' = FALSE
    /\ fsEvents' = << >>
    /\ fsTimers' = 0
    /\ windows' = << >>
    /\ echo' = 0
    /\ fsPayload' = FALSE
    /\ userCount' = 1
    /\ UNCHANGED toClient
    /\ UNCHANGED serverVars

\* socket.on("user-count-update", ...)
UserCountUpdate(count) ==
    /\ listening
    /\ userCount' = count
    /\ UserStep("user-count-update")
    /\ UNCHANGED listening

\* The socket delivers the oldest message to the tab.  On the home page
\* nothing listens, and the callback of a page that is gone sets no state.
\* The callback of a successful join also does setUserCount.
Deliver ==
    /\ toClient # << >>
    /\ status[ClientId] = "connected"
    /\ toClient' = Tail(toClient)
    /\ LET m == Head(toClient)
       IN  IF ~mounted \/ (m.event # "join-reply" /\ ~listening)
           THEN UserStep("undelivered") /\ UNCHANGED <<listening, userCount>>
           ELSE IF m.event = "host-changed"
           THEN HostChanged(m.payload.newHostId) /\ UNCHANGED userCount
           ELSE IF m.event = "user-count-update"
           THEN UserCountUpdate(m.payload.userCount)
           ELSE IF m.payload.success
           THEN /\ JoinCallback(TRUE, m.payload.roomState)
                /\ userCount' = m.payload.roomState.userCount
           ELSE JoinCallback(FALSE, Undefined) /\ UNCHANGED userCount
    /\ UNCHANGED <<lifeVars, fsVars, windows, echo, fsPayload, displayed, toServer>>

\* The effect runs again; the join-room it emits is for the page's route.
SystemRunEffect ==
    /\ mounted
    /\ RunEffect
    /\ toServer' = toServer \o [i \in 1..Len(sent') |-> displayed]
    /\ UNCHANGED <<lifeVars, fsVars, windows, echo, fsPayload, displayed, toClient, userCount>>

\* A step of the mounted page that uses no socket.
Local(step) ==
    /\ mounted
    /\ step
    /\ UNCHANGED <<lifeVars, fsVars, windows, echo, fsPayload, netVars>>

SystemNext ==
    \/ \E c \in Conns : Served(Connect(c))
    \/ \E c \in Conns \ {ClientId} : Served(CreateRoom(c, MaxUrls))
    \/ HomeCreateRoom(MaxUrls)
    \/ \E c \in Conns \ {ClientId}, roomId \in RoomIds : Served(JoinRoom(c, roomId))
    \/ ServeJoin
    \/ \E c \in Conns \ {ClientId} : Served(Disconnect(c))
    \/ TabDisconnect
    \/ \E roomId \in RoomIds : OpenRoom(roomId)
    \/ Deliver
    \/ SystemRunEffect
    \/ Local(ApplySnapshot)
    \/ \E i \in 1..MaxPending : Local(MediaEvent(i))
    \/ Offline(NavigateHome)

SystemSpec == SystemInit /\ [][SystemNext]_vars

\* ================================================================ claims
\* What the last handler was given.
Sender == lastEvent.socket
Named == lastEvent.roomId

\* The last request named a room that existed and was sent by its host.
WasAuthorized == Named \in DOMAIN before /\ before[Named].host = Sender

\* The emits of the last handler to room r that carry the given event name.
EmitsOf(r, event) == SelectSeq(emitted[r], LAMBDA e : e.event = event)

\* C1: in every reachable state, every room of the registry whose member
\* set is non-empty has its host among its members.
C1_HostIsMember ==
    \A r \in DOMAIN rooms :
        Len(rooms[r].users) > 0 => MapHas(rooms[r].users, rooms[r].host)

\* C1 witness: a host left a room that kept members, and the room has a
\* new host.
C1_Witness ==
    /\ lastEvent.name = "disconnect"
    /\ \E r \in DOMAIN before \cap DOMAIN rooms :
        /\ before[r].host = Sender
        /\ rooms[r].host # Sender

\* C2: a play, pause, seek or fullscreen request that names a room whose
\* host is not the sender, or a room that does not exist, leaves the room's
\* currentTime and isPlaying as they were, broadcasts to no room, and gets
\* no reply.
C2_RejectedControlIsSilent ==
    (lastEvent.name \in ControlNames /\ ~WasAuthorized) =>
        /\ Named \in DOMAIN before =>
             /\ Named \in DOMAIN rooms
             /\ rooms[Named].currentTime = before[Named].currentTime
             /\ rooms[Named].isPlaying = before[Named].isPlaying
        /\ Named \notin DOMAIN before => Named \notin DOMAIN rooms
        /\ emitted = NoEmits
        /\ reply = NoReply

\* C2 witness: a member that is not the host asked to play at a time other
\* than the stored one, in a room that was paused.
C2_Witness ==
    /\ lastEvent.name = "play"
    /\ Named \in DOMAIN before
    /\ MapHas(before[Named].users, Sender)
    /\ before[Named].host # Sender
    /\ before[Named].currentTime # lastEvent.arg
    /\ ~before[Named].isPlaying

\* The rooms the departing socket was host of and that keep a member.
HostLeftRooms ==
    {r \in DOMAIN before :
        /\ before[r].host = Sender
        /\ Keys(before[r].users) \ {Sender} # {}}

\* C3: when the host of a room disconnects and a member remains, exactly
\* one host-changed is emitted for that room; the newHostId it carries is
\* the room's host afterwards, was a member before the disconnect and is
\* not the departed socket.
C3_HostChangedOnce ==
    lastEvent.name = "disconnect" =>
        \A r \in HostLeftRooms :
            /\ r \in DOMAIN rooms
            /\ Len(EmitsOf(r, "host-changed")) = 1
            /\ LET newHostId == EmitsOf(r, "host-changed")[1].payload.newHostId
               IN  /\ newHostId = rooms[r].host
                   /\ newHostId \in Keys(before[r].users)
                   /\ newHostId # Sender

\* C3 witness: the host left a room in which two other members remain.
C3_Witness ==
    /\ lastEvent.name = "disconnect"
    /\ \E r \in HostLeftRooms : Len(rooms[r].users) = 2

\* C4: once the last member of a room has disconnected, every later
\* join-room with that room's identifier is answered with the not-found
\* failure and the identifier names no room afterwards.
C4_DeletedRoomStaysGone ==
    (lastEvent.name = "join-room" /\ Named \in deleted) =>
        /\ reply = NotFoundReply
        /\ Named \notin DOMAIN rooms

\* C5: every room in the registry has at least one member.
C5_NoEmptyRoom == \A r \in DOMAIN rooms : Len(rooms[r].users) >= 1

\* C5 witness: a disconnect took the last member of one room while another
\* room stayed in the registry.
C5_Witness ==
    /\ lastEvent.name = "disconnect"
    /\ \E r \in DOMAIN before : Keys(before[r].users) = {Sender}
    /\ DOMAIN rooms # {}

\* C6: a join-room for an existing room adds the caller to its members and
\* replies success with the room's stored videoUrl, currentTime and
\* isPlaying, isHost true exactly when the caller is the room's host, and
\* userCount the number of members after the caller was added; a second
\* connection joining a room that held only its creator gets isHost false
\* and userCount 2.
C6_JoinSnapshot ==
    (lastEvent.name = "join-room" /\ Named \in DOMAIN before) =>
        /\ Named \in DOMAIN rooms
        /\ Keys(rooms[Named].users) = Keys(before[Named].users) \cup {Sender}
        /\ reply.success = TRUE
        /\ reply.roomState.videoUrl = rooms[Named].videoUrl
        /\ reply.roomState.currentTime = rooms[Named].currentTime
        /\ reply.roomState.isPlaying = rooms[Named].isPlaying
        /\ reply.roomState.isHost = (rooms[Named].host = Sender)
        /\ reply.roomState.userCount =
              Cardinality(Keys(before[Named].users) \cup {Sender})
        /\ (Len(before[Named].users) = 1 /\ ~MapHas(before[Named].users, Sender)) =>
              /\ reply.roomState.isHost = FALSE
              /\ reply.roomState.userCount = 2

\* C6 witness: a second connection joined a room that held only its
\* creator, while the room was playing at a time other than 0.
C6_Witness ==
    /\ lastEvent.name = "join-room"
    /\ Named \in DOMAIN before
    /\ Len(before[Named].users) = 1
    /\ ~MapHas(before[Named].users, Sender)
    /\ reply.roomState.isPlaying
    /\ reply.roomState.currentTime # 0

\* C7: a join-room that names no live room is answered with
\* {success: false, error}, leaves the registry as it was and broadcasts
\* nothing.
C7_JoinMissingRoom ==
    (lastEvent.name = "join-room" /\ Named \notin DOMAIN before) =>
        /\ reply = NotFoundReply
        /\ reply.success = FALSE
        /\ rooms = before
        /\ emitted = NoEmits

\* C7 witness: a join named an identifier that no room ever had, while
\* another room was live.
C7_Witness ==
    /\ lastEvent.name = "join-room"
    /\ Named \notin DOMAIN before
    /\ Named \notin deleted
    /\ DOMAIN before # {}

\* C8: create-room from socket c with video URL u stores, under the roomId
\* of its reply {success: true, roomId, isHost: true}, a room with
\* videoUrl u, currentTime 0, isPlaying false, host c and members {c}.
C8_CreateRoomResult ==
    lastEvent.name = "create-room" =>
        /\ reply.success = TRUE
        /\ reply.isHost = TRUE
        /\ reply.roomId \in DOMAIN rooms
        /\ rooms[reply.roomId].videoUrl = lastEvent.arg
        /\ rooms[reply.roomId].currentTime = 0
        /\ rooms[reply.roomId].isPlaying = FALSE
        /\ rooms[reply.roomId].host = Sender
        /\ Keys(rooms[reply.roomId].users) = {Sender}
        /\ Len(rooms[reply.roomId].users) = 1

\* C8 witness: a room was created next to a live room that has another
\* URL and another host.
C8_Witness ==
    /\ lastEvent.name = "create-room"
    /\ \E r \in DOMAIN before :
        /\ r # reply.roomId
        /\ before[r].videoUrl # lastEvent.arg
        /\ before[r].host # Sender

\* C9: create-room allocates an identifier that no live room has, and
\* leaves every room that already existed as it was.
C9_CreateNeverCollides ==
    lastEvent.name = "create-room" =>
        /\ reply.roomId \notin DOMAIN before
        /\ \A r \in DOMAIN before : r \in DOMAIN rooms /\ rooms[r] = before[r]

\* C10: an accepted play carrying time t sets isPlaying to true and
\* currentTime to t, an accepted pause carrying t sets isPlaying to false
\* and currentTime to t, and the one play-event or pause-event broadcast
\* that follows carries that t.
C10_PlayPauseEffect ==
    (lastEvent.name \in {"play", "pause"} /\ WasAuthorized) =>
        /\ Named \in DOMAIN rooms
        /\ rooms[Named].isPlaying = (lastEvent.name = "play")
        /\ rooms[Named].currentTime = lastEvent.arg
        /\ Len(emitted[Named]) = 1
        /\ emitted[Named][1].event =
              (IF lastEvent.name = "play" THEN "play-event" ELSE "pause-event")
        /\ emitted[Named][1].payload = [currentTime |-> lastEvent.arg]

\* C10 witness: the host paused, at a time other than the stored one, a
\* room that was playing and has a second member.
C10_Witness ==
    /\ lastEvent.name = "pause"
    /\ WasAuthorized
    /\ before[Named].isPlaying
    /\ before[Named].currentTime # lastEvent.arg
    /\ Len(before[Named].users) = 2

\* C11: an accepted seek changes the named room's currentTime and nothing
\* else in the registry (isPlaying, host, members and videoUrl stay); an
\* accepted fullscreen changes no field of any room.
C11_SeekFullscreenFrame ==
    /\ (lastEvent.name = "seek" /\ WasAuthorized) =>
          rooms = [before EXCEPT ![Named].currentTime = lastEvent.arg]
    /\ (lastEvent.name = "fullscreen" /\ WasAuthorized) => rooms = before

\* C11 witness: the host sought, to a time other than the stored one, in a
\* paused room with a second member.
C11_Witness ==
    /\ lastEvent.name = "seek"
    /\ WasAuthorized
    /\ ~before[Named].isPlaying
    /\ before[Named].currentTime # lastEvent.arg
    /\ Len(before[Named].users) = 2

\* The broadcast event that answers each control request.
EventFor(name) ==
    CASE name = "play" -> "play-event"
      [] name = "pause" -> "pause-event"
      [] name = "seek" -> "seek-event"
      [] name = "fullscreen" -> "fullscreen-event"

\* C12: a control request is accepted (broadcast) if and only if the named
\* room exists and the sender is its host; an accepted request makes exactly
\* one broadcast, of the corresponding event, to the named room only, and
\* its recipients include every member of the room, the host among them.
C12_AcceptedIffHostOneBroadcast ==
    lastEvent.name \in ControlNames =>
        /\ WasAuthorized <=> emitted # NoEmits
        /\ WasAuthorized =>
             /\ emitted = [NoEmits EXCEPT ![Named] = emitted[Named]]
             /\ Len(emitted[Named]) = 1
             /\ emitted[Named][1].event = EventFor(lastEvent.name)
             /\ Keys(rooms[Named].users) \subseteq emitted[Named][1].to
             /\ Sender \in emitted[Named][1].to

\* C12 witness: the host of a room with three members sent fullscreen.
C12_Witness ==
    /\ lastEvent.name = "fullscreen"
    /\ WasAuthorized
    /\ Len(before[Named].users) = 3

\* C15: after the host of a room disconnects and host-changed names the
\* remaining member B, B's next control request naming the room is
\* accepted: it is broadcast to the room, B among the recipients, and a
\* pause stores its flag and time.
C15_PromotedHostNextRequestAccepted ==
    [][\A r \in RoomIds, c \in Conns :
          (/\ promoted[r] = c
           /\ lastEvent'.name \in ControlNames
           /\ lastEvent'.socket = c
           /\ lastEvent'.roomId = r) =>
              /\ Len(emitted'[r]) = 1
              /\ c \in emitted'[r][1].to
              /\ lastEvent'.name = "pause" =>
                    /\ rooms'[r].isPlaying = FALSE
                    /\ rooms'[r].currentTime = lastEvent'.arg]_vars

\* C16: whenever the host leaves a room that keeps other members, by
\* losing its connection or by the Leave Room control, the room's host
\* afterwards is one of the remaining members.
C16_HostLeavingHandsOver ==
    \A r \in DOMAIN before :
        (/\ lastEvent.name \in {"disconnect", "leave-room"}
         /\ lastEvent.name = "leave-room" => r = Named
         /\ before[r].host = Sender
         /\ Keys(before[r].users) \ {Sender} # {}) =>
            /\ r \in DOMAIN rooms
            /\ rooms[r].host \in Keys(before[r].users) \ {Sender}

\* C17: no socket is among the members of two different rooms.
C17_OneRoomPerConnection ==
    \A r1 \in DOMAIN rooms, r2 \in DOMAIN rooms :
        r1 # r2 => Keys(rooms[r1].users) \cap Keys(rooms[r2].users) = {}

\* The members of room r before the last handler that stay when the sender
\* goes, in their stored order.
Remaining(r) == SelectSeq(before[r].users, LAMBDA x : x # Sender)

\* C18: the successor of a departing host is the earliest-joined member
\* among those remaining, join order being the order of first admission:
\* a join of a new socket puts it last, a join of a member changes no
\* position, a disconnect keeps the order of those who stay, and the new
\* host is the first of them.
C18_SuccessorIsEarliestJoined ==
    /\ (lastEvent.name = "join-room" /\ Named \in DOMAIN before) =>
          rooms[Named].users =
             IF MapHas(before[Named].users, Sender)
             THEN before[Named].users
             ELSE Append(before[Named].users, Sender)
    /\ lastEvent.name = "disconnect" =>
          /\ \A r \in DOMAIN rooms : rooms[r].users = Remaining(r)
          /\ \A r \in HostLeftRooms : rooms[r].host = Remaining(r)[1]

\* C18 witness: the first of three members, the host, left, and the member
\* that joined second became host although its socket id is the larger of
\* the two that remain.
C18_Witness ==
    /\ lastEvent.name = "disconnect"
    /\ \E r \in HostLeftRooms :
        /\ Len(before[r].users) = 3
        /\ before[r].users[1] = Sender
        /\ before[r].users[2] > before[r].users[3]
        /\ rooms[r].host = before[r].users[2]

\* C19: a socket whose disconnect has been processed is host of no room, so
\* the authority check of the control handlers fails for it on every room
\* identifier: a request of it processed afterwards is dropped.
C19_DisconnectedNeverAuthorized ==
    \A c \in Conns :
        status[c] = "disconnected" =>
            \A r \in RoomIds :
                /\ ~Authorized(r, c)
                /\ r \in DOMAIN rooms =>
                      rooms[r].host # c /\ ~MapHas(rooms[r].users, c)

\* C19 witness: the host of a playing room disconnected and the room lives
\* on with one member.
C19_Witness ==
    /\ lastEvent.name = "disconnect"
    /\ status[Sender] = "disconnected"
    /\ \E r \in DOMAIN before \cap DOMAIN rooms :
        /\ before[r].host = Sender
        /\ before[r].isPlaying
        /\ Len(rooms[r].users) = 1

\* C20: a join, a control request or a disconnect is never processed on a
\* room whose host has been removed from the members and not yet replaced:
\* every room such a handler starts on has members and its host is one.
C20_NoHandlerSeesVacantRoom ==
    lastEvent.name \in {"join-room", "disconnect"} \cup ControlNames =>
        \A r \in DOMAIN before :
            /\ Len(before[r].users) >= 1
            /\ MapHas(before[r].users, before[r].host)

\* C20 witness: a join was processed on a room right after its host had
\* been replaced.
C20_Witness ==
    /\ lastEvent.name = "join-room"
    /\ Named \in DOMAIN before
    /\ promoted[Named] # Undefined
    /\ before[Named].host = promoted[Named]
    /\ ~MapHas(before[Named].users, Sender)

RemoteNames == {"play-event", "pause-event", "seek-event"}

MediaNames == {"play", "pause", "seeked"}

\* The positions the last step of the page told the element to seek to.
SeeksTo == {commands[i].time : i \in {j \in DOMAIN commands : commands[j].cmd = "seek"}}

\* C13: applying a remote play, pause or seek event with time r on local
\* time l tells the element to seek, and then to r, exactly when l and r
\* are more than 0.5 s apart; otherwise the position stays l.  Either way
\* the position afterwards is within 0.5 s of r.
C13_SeekIffDriftOverThreshold ==
    clientEvent.name \in RemoteNames =>
        LET l == clientEvent.localTime
            r == clientEvent.currentTime
            apart == l - r > DriftThreshold \/ r - l > DriftThreshold
        IN  /\ apart => SeeksTo = {r} /\ videoTime = r
            /\ ~apart => SeeksTo = {} /\ videoTime = l
            /\ videoTime - r <= DriftThreshold
            /\ r - videoTime <= DriftThreshold

\* C13 witness: a remote pause 0.6 s ahead of the local position made the
\* page seek to it.
C13_Witness ==
    /\ clientEvent.name = "pause-event"
    /\ clientEvent.currentTime - clientEvent.localTime = DriftThreshold + 1
    /\ SeeksTo = {clientEvent.currentTime}
    /\ videoTime = clientEvent.currentTime

\* C14: a play, pause or seeked event of the element handled while the
\* syncing flag is true or the page is not host emits nothing; handled by
\* the host with the flag false it emits the one matching control request,
\* carrying the element's current time.
C14_ForwardOnlyHostNotSyncing ==
    clientEvent.name \in MediaNames =>
        IF clientEvent.syncing \/ ~clientEvent.host
        THEN sent = << >>
        ELSE sent = <<[event |-> IF clientEvent.name = "seeked" THEN "seek"
                                 ELSE clientEvent.name,
                       currentTime |-> clientEvent.localTime]>>

\* C14 witness: the host's element dispatched the play event of a remote
\* play command while the syncing flag was still true, and nothing was sent.
C14_Witness ==
    /\ clientEvent.name = "play"
    /\ clientEvent.host
    /\ clientEvent.syncing
    /\ sent = << >>

\* The host's own gesture is forwarded with the position it seeked to.
C14_ForwardedWitness ==
    /\ clientEvent.name = "seeked"
    /\ clientEvent.host
    /\ ~clientEvent.syncing
    /\ Len(sent) = 1
    /\ sent[1].currentTime = MaxVideoTime

\* The rooms that existed before the last handler and exist after it.
Kept == DOMAIN before \cap DOMAIN rooms

\* C24: the currentTime and isPlaying of a room differ after a handler only
\* if the handler was play, pause or seek, named that room and was sent by
\* its host.
C24_PlaybackChangesOnlyByControl ==
    \A r \in Kept :
        (\/ rooms[r].currentTime # before[r].currentTime
         \/ rooms[r].isPlaying # before[r].isPlaying) =>
            /\ lastEvent.name \in {"play", "pause", "seek"}
            /\ Named = r
            /\ WasAuthorized

\* C25: the videoUrl of a room is the same after every handler, and a
\* successful join-room replies with it.
C25_VideoUrlNeverChanges ==
    /\ \A r \in Kept : rooms[r].videoUrl = before[r].videoUrl
    /\ (lastEvent.name = "join-room" /\ Named \in DOMAIN before) =>
          reply.roomState.videoUrl = before[Named].videoUrl

\* C26: the host of a room differs after a handler only if the handler was
\* the disconnect of its host with members remaining, and host-changed is
\* emitted to a room by no other handler.
C26_HostChangesOnlyOnHostDisconnect ==
    \A r \in RoomIds :
        /\ (r \in Kept /\ rooms[r].host # before[r].host) =>
              /\ lastEvent.name = "disconnect"
              /\ before[r].host = Sender
        /\ EmitsOf(r, "host-changed") # << >> =>
              /\ lastEvent.name = "disconnect"
              /\ r \in Kept
              /\ before[r].host = Sender

\* C28: once the disconnect of a socket is processed it is host and member
\* of no room.  The handler leaves every room that did not hold the socket
\* as it was and emits nothing to it; a room that held it is deleted if it
\* held no one else, and otherwise keeps exactly its other members, with
\* one of them as host.
C28_DisconnectLeavesEveryRoom ==
    /\ \A c \in Conns : status[c] = "disconnected" =>
          \A r \in DOMAIN rooms : rooms[r].host # c /\ ~MapHas(rooms[r].users, c)
    /\ lastEvent.name = "disconnect" =>
          /\ DOMAIN rooms \subseteq DOMAIN before
          /\ \A r \in DOMAIN before :
                IF MapHas(before[r].users, Sender)
                THEN IF Keys(before[r].users) = {Sender}
                     THEN r \notin DOMAIN rooms
                     ELSE /\ r \in DOMAIN rooms
                          /\ Keys(rooms[r].users) = Keys(before[r].users) \ {Sender}
                          /\ MapHas(rooms[r].users, rooms[r].host)
                ELSE /\ r \in DOMAIN rooms
                     /\ rooms[r] = before[r]
                     /\ emitted[r] = << >>

\* C28 witness: the socket that disconnected was in two rooms, alone in one
\* and host of another that keeps a member.
C28_Witness ==
    /\ lastEvent.name = "disconnect"
    /\ \E r1 \in DOMAIN before, r2 \in DOMAIN before :
        /\ Keys(before[r1].users) = {Sender}
        /\ r1 \notin DOMAIN rooms
        /\ before[r2].host = Sender
        /\ r2 \in DOMAIN rooms
        /\ rooms[r2].host # Sender

\* C21: while the reset timer of the latest remote event is pending, the
\* syncing flag is true.  Timers of equal delay fire in the order they were
\* set, so the latest one is pending as long as any is.
C21_FlagHeldUntilLatestTimer == timers > 0 => isSyncingRef

\* C22: a remote play, pause or seek event leaves the syncing flag true
\* with a reset timer pending, the flag is never true without one, and a
\* flag that is true is eventually false again.
C22_FlagSetThenCleared ==
    /\ [](clientEvent.name \in RemoteNames => isSyncingRef)
    /\ [](isSyncingRef => timers > 0)
    /\ (isSyncingRef ~> ~isSyncingRef)

\* C22 witness: the reset timer of a remote event has fired and cleared
\* the flag, the event's echo not yet dispatched.
C22_Witness ==
    /\ clientEvent.name = "reset-timer"
    /\ ~isSyncingRef
    /\ timers = 0
    /\ mediaEvents # << >>

\* The events of the server that the room page listens to.
ServerNames == RemoteNames \cup {"fullscreen-event", "host-changed"}

\* C23: once the page was told that the room is closed, handling a later
\* event of the server changes neither the video element nor the page's
\* own state.
C23_ClosedPageIgnoresServer ==
    [][(roomClosed /\ clientEvent'.name \in ServerNames)
          => UNCHANGED <<videoTime, videoPaused, isSyncingRef, isHost,
                         showFullscreenPrompt, fullscreen>>]_vars

\* C29: a media event that a remote event caused, dispatched before that
\* remote event's reset timer fired, makes the page send nothing.
C29_EchoNeverForwarded ==
    (clientEvent.name \in MediaNames /\ echo > 0) => sent = << >>

\* C30: handling fullscreen-event with isFullscreen true, a host asks for
\* fullscreen and a page that is not host asks for nothing and shows the
\* prompt; with isFullscreen false the prompt is hidden; and the
\* fullscreenchange that handling a fullscreen-event caused, dispatched
\* before that event's reset timer fired, makes the page send nothing.
C30_FullscreenEventHandling ==
    /\ (clientEvent.name = "fullscreen-event" /\ fsPayload /\ clientEvent.host)
          => commands = <<Command("requestFullscreen", Undefined)>>
    /\ (clientEvent.name = "fullscreen-event" /\ fsPayload /\ ~clientEvent.host)
          => (commands = << >> /\ showFullscreenPrompt)
    /\ (clientEvent.name = "fullscreen-event" /\ ~fsPayload)
          => ~showFullscreenPrompt
    /\ (clientEvent.name = "fullscreenchange" /\ echo > 0) => sent = << >>

\* C27: with the tab's socket connected and nothing in flight between the
\* server and the page, the page's isHost is true exactly when the server
\* has this socket as host of the room the page displays.
C27_HostFlagTracksServer ==
    (mounted /\ status[ClientId] = "connected" /\ toServer = << >> /\ toClient = << >>)
        => (isHost <=> (displayed \in DOMAIN rooms /\ rooms[displayed].host = ClientId))

\* C32: a join-room from a socket that is already a user of the named room
\* leaves the registry as it was (users, their order, their number and the
\* host included), and its reply carries the unchanged number of users and
\* isHost according to the unchanged host.
C32_RejoinChangesNothing ==
    (/\ lastEvent.name = "join-room"
     /\ Named \in DOMAIN before
     /\ MapHas(before[Named].users, Sender)) =>
        /\ rooms = before
        /\ reply.success
        /\ reply.roomState.userCount = Len(before[Named].users)
        /\ reply.roomState.isHost = (before[Named].host = Sender)

\* C32 witness: the creator of a room with a second user joined it again.
C32_Witness ==
    /\ lastEvent.name = "join-room"
    /\ Named \in DOMAIN before
    /\ Len(before[Named].users) = 2
    /\ before[Named].users[1] = Sender
    /\ before[Named].host = Sender
    /\ reply.success

\* C34: a join-room or control request that names room R leaves every other
\* room of the registry as it was, emits to no other room, and what it
\* emits goes to users of R only.
C34_RoomsIsolated ==
    lastEvent.name \in ControlNames \cup {"join-room"} =>
        /\ DOMAIN rooms \ {Named} = DOMAIN before \ {Named}
        /\ \A r \in DOMAIN before \ {Named} : rooms[r] = before[r]
        /\ \A r \in RoomIds \ {Named} : emitted[r] = << >>
        /\ \A i \in DOMAIN emitted[Named] :
              emitted[Named][i].to \subseteq Keys(rooms[Named].users)

\* C31: a media event that applying a join snapshot caused makes the page
\* send nothing.  (Where the server runs with one tab and nobody touches
\* the video, the snapshot timer is all that commands the element, so
\* every media event there is one of these.)
C31_SnapshotNeverForwarded ==
    clientEvent.name \in MediaNames => sent = << >>

\* C33: each successful join-room, and each disconnect for each room it
\* leaves with users, emits user-count-update once, to that room, with the
\* number of users the room then has; and with the tab's socket a user of
\* the room its page displays and nothing in flight, the page's userCount
\* is the number of users of that room.
C33_DisplayedCountIsActual ==
    /\ (lastEvent.name = "join-room" /\ Named \in DOMAIN before) =>
          /\ Len(EmitsOf(Named, "user-count-update")) = 1
          /\ EmitsOf(Named, "user-count-update")[1].payload.userCount
                = Len(rooms[Named].users)
    /\ lastEvent.name = "disconnect" =>
          \A r \in DOMAIN before :
             (MapHas(before[r].users, Sender) /\ r \in DOMAIN rooms) =>
                /\ Len(EmitsOf(r, "user-count-update")) = 1
                /\ EmitsOf(r, "user-count-update")[1].payload.userCount
                      = Len(rooms[r].users)
    /\ (/\ mounted
        /\ status[ClientId] = "connected"
        /\ toServer = << >>
        /\ toClient = << >>
        /\ displayed \in DOMAIN rooms
        /\ MapHas(rooms[displayed].users, ClientId)) =>
          userCount = Len(rooms[displayed].users)

====
